---- MODULE Spec2Model ----
(***************************************************************************)
(* The coupled connection state machine of h11/state.py: the client and    *)
(* server automata, the keep-alive flag and the pending protocol-switch    *)
(* proposals, driven by the four operations of ConnectionState.            *)
(***************************************************************************)
EXTENDS Naturals, FiniteSets, Sequences, TLC

(***************************************************************************)
(* Sentinels (state.py lines 8-15) and the event types of h11.events.      *)
(***************************************************************************)
CLIENT == "CLIENT"
SERVER == "SERVER"

IDLE == "IDLE"
SEND_RESPONSE == "SEND_RESPONSE"
SEND_BODY == "SEND_BODY"
DONE == "DONE"
MUST_CLOSE == "MUST_CLOSE"
CLOSED == "CLOSED"
MIGHT_SWITCH_PROTOCOL == "MIGHT_SWITCH_PROTOCOL"
SWITCHED_PROTOCOL == "SWITCHED_PROTOCOL"

SWITCH_UPGRADE == "SWITCH_UPGRADE"
SWITCH_CONNECT == "SWITCH_CONNECT"

Request == "Request"
InformationalResponse == "InformationalResponse"
Response == "Response"
Data == "Data"
EndOfMessage == "EndOfMessage"
ConnectionClosed == "ConnectionClosed"

\* Python's None, the default of server_switch_event.
None == "None"

Roles == {CLIENT, SERVER}
StateSentinels == {IDLE, SEND_RESPONSE, SEND_BODY, DONE, MUST_CLOSE, CLOSED,
                   MIGHT_SWITCH_PROTOCOL, SWITCHED_PROTOCOL}
SwitchEvents == {SWITCH_UPGRADE, SWITCH_CONNECT}
EventTypes == {Request, InformationalResponse, Response, Data, EndOfMessage,
               ConnectionClosed}

(***************************************************************************)
(* A key of the inner dictionaries of EVENT_TRIGGERED_TRANSITIONS: a bare  *)
(* event type (tag None) or a tuple (event type, tag).                     *)
(***************************************************************************)
EventKey(event_type, tag) == <<event_type, tag>>

\* A dictionary is a set of <<key, value>> items.
Item(event_type, tag, target) == <<EventKey(event_type, tag), target>>

EVENT_TRIGGERED_TRANSITIONS ==
    (CLIENT :>
        (  (IDLE :> {Item(Request, None, SEND_BODY),
                     Item(ConnectionClosed, None, CLOSED)})
        @@ (SEND_BODY :> {Item(Data, None, SEND_BODY),
                          Item(EndOfMessage, None, DONE)})
        @@ (DONE :> {Item(ConnectionClosed, None, CLOSED)})
        @@ (MUST_CLOSE :> {Item(ConnectionClosed, None, CLOSED)})
        @@ (CLOSED :> {Item(ConnectionClosed, None, CLOSED)})
        @@ (MIGHT_SWITCH_PROTOCOL :> {})
        @@ (SWITCHED_PROTOCOL :> {}) ))
    @@
    (SERVER :>
        (  (IDLE :> {Item(ConnectionClosed, None, CLOSED),
                     Item(Request, CLIENT, SEND_RESPONSE),
                     Item(Response, None, SEND_BODY)})
        @@ (SEND_RESPONSE :> {Item(InformationalResponse, None, SEND_RESPONSE),
                              Item(Response, None, SEND_BODY),
                              Item(InformationalResponse, SWITCH_UPGRADE,
                                   SWITCHED_PROTOCOL),
                              Item(Response, SWITCH_CONNECT,
                                   SWITCHED_PROTOCOL)})
        @@ (SEND_BODY :> {Item(Data, None, SEND_BODY),
                          Item(EndOfMessage, None, DONE)})
        @@ (DONE :> {Item(ConnectionClosed, None, CLOSED)})
        @@ (MUST_CLOSE :> {Item(ConnectionClosed, None, CLOSED)})
        @@ (CLOSED :> {Item(ConnectionClosed, None, CLOSED)})
        @@ (SWITCHED_PROTOCOL :> {}) ))

\* (client state, server state) -> the roles whose state changes, and to what.
STATE_TRIGGERED_TRANSITIONS ==
       (<<MIGHT_SWITCH_PROTOCOL, SWITCHED_PROTOCOL>> :>
            (CLIENT :> SWITCHED_PROTOCOL))
    @@ (<<CLOSED, DONE>> :> (SERVER :> MUST_CLOSE))
    @@ (<<CLOSED, IDLE>> :> (SERVER :> MUST_CLOSE))
    @@ (<<DONE, CLOSED>> :> (CLIENT :> MUST_CLOSE))
    @@ (<<IDLE, CLOSED>> :> (CLIENT :> MUST_CLOSE))

(***************************************************************************)
(* EVENT_TRIGGERED_TRANSITIONS[role][state][event_type] of line 202:       *)
(* whether the subscript chain raises KeyError, and its value otherwise.   *)
(***************************************************************************)
HasTransition(role, state, key) ==
    /\ role \in DOMAIN EVENT_TRIGGERED_TRANSITIONS
    /\ state \in DOMAIN EVENT_TRIGGERED_TRANSITIONS[role]
    /\ \E item \in EVENT_TRIGGERED_TRANSITIONS[role][state] : item[1] = key

NewState(role, state, key) ==
    (CHOOSE item \in EVENT_TRIGGERED_TRANSITIONS[role][state] :
        item[1] = key)[2]

(***************************************************************************)
(* The loop body of _fire_state_triggered_transitions, rule by rule.  st   *)
(* is self.states, keep is self.keep_alive, pending is                     *)
(* self.pending_switch_proposals.                                          *)
(***************************************************************************)
\* Variant of SwitchProposedRule that writes the server's entry.
SwitchProposedRuleWrongRole(st, pending) ==
    IF pending # {} /\ st[CLIENT] = DONE
    THEN [st EXCEPT ![SERVER] = MIGHT_SWITCH_PROTOCOL]
    ELSE st

\* lines 227-229: DONE -> MIGHT_SWITCH_PROTOCOL while a proposal is pending.
SwitchProposedRule(st, pending) ==
    IF pending # {} /\ st[CLIENT] = DONE
    THEN [st EXCEPT ![CLIENT] = MIGHT_SWITCH_PROTOCOL]
    ELSE st

\* Variant of SwitchDeniedRule that sends the client back to IDLE.
SwitchDeniedRuleToIdle(st, pending) ==
    IF pending = {} /\ st[CLIENT] = MIGHT_SWITCH_PROTOCOL
    THEN [st EXCEPT ![CLIENT] = IDLE]
    ELSE st

\* lines 231-233: MIGHT_SWITCH_PROTOCOL -> DONE once no proposal is pending.
SwitchDeniedRule(st, pending) ==
    IF pending = {} /\ st[CLIENT] = MIGHT_SWITCH_PROTOCOL
    THEN [st EXCEPT ![CLIENT] = DONE]
    ELSE st

\* Variant of KeepAliveRule with the test of the flag inverted.
KeepAliveRuleInverted(st, keep) ==
    IF keep
    THEN [role \in Roles |-> IF st[role] = DONE THEN MUST_CLOSE ELSE st[role]]
    ELSE st

\* Variant of KeepAliveRule whose loop visits the client only.
KeepAliveRuleClientOnly(st, keep) ==
    IF ~keep /\ st[CLIENT] = DONE
    THEN [st EXCEPT ![CLIENT] = MUST_CLOSE]
    ELSE st

\* lines 235-238: DONE -> MUST_CLOSE for both roles when keep-alive is off.
KeepAliveRule(st, keep) ==
    IF ~keep
    THEN [role \in Roles |-> IF st[role] = DONE THEN MUST_CLOSE ELSE st[role]]
    ELSE st

\* Variant of TabularRule that looks the changes up and does not apply them.
TabularRuleNotApplied(st) ==
    st

\* Variant of TabularRule that builds joint_state as (server, client).
TabularRuleSwapped(st) ==
    LET joint_state == <<st[SERVER], st[CLIENT]>>
        changes == IF joint_state \in DOMAIN STATE_TRIGGERED_TRANSITIONS
                   THEN STATE_TRIGGERED_TRANSITIONS[joint_state]
                   ELSE <<>>
    IN  [role \in Roles |->
            IF role \in DOMAIN changes THEN changes[role] ELSE st[role]]

\* lines 241-243: the tabular joint-state transitions.
TabularRule(st) ==
    LET joint_state == <<st[CLIENT], st[SERVER]>>
        changes == IF joint_state \in DOMAIN STATE_TRIGGERED_TRANSITIONS
                   THEN STATE_TRIGGERED_TRANSITIONS[joint_state]
                   ELSE <<>>
    IN  [role \in Roles |->
            IF role \in DOMAIN changes THEN changes[role] ELSE st[role]]

\* Variant of StatePass that applies the keep-alive rule before the
\* protocol-switch rules.
StatePassCloseFirst(st, keep, pending) ==
    TabularRule(
        SwitchDeniedRule(
            SwitchProposedRule(KeepAliveRule(st, keep), pending),
            pending))

\* Variant of StatePass whose second switch rule is an elif that does not
\* look at the proposals.
StatePassUnguardedElse(st, keep, pending) ==
    TabularRule(
        KeepAliveRule(
            IF pending # {} /\ st[CLIENT] = DONE
            THEN [st EXCEPT ![CLIENT] = MIGHT_SWITCH_PROTOCOL]
            ELSE IF st[CLIENT] = MIGHT_SWITCH_PROTOCOL
            THEN [st EXCEPT ![CLIENT] = DONE]
            ELSE st,
            keep))

\* One iteration of the while loop (lines 212-243).
StatePass(st, keep, pending) ==
    TabularRule(
        KeepAliveRule(
            SwitchDeniedRule(SwitchProposedRule(st, pending), pending),
            keep))

\* lines 209-247: iterate until a pass leaves self.states as it found it.
RECURSIVE fire_state_triggered_transitions(_, _, _)
fire_state_triggered_transitions(st, keep, pending) ==
    LET after == StatePass(st, keep, pending)
    IN  IF after = st
        THEN st
        ELSE fire_state_triggered_transitions(after, keep, pending)

(***************************************************************************)
(* What a call leaves behind: the three fields of the object, how the call *)
(* ended ("ok", "ProtocolError", "AssertionError") and the source line of  *)
(* the statement of the operation that raised ("-" when none did).         *)
(***************************************************************************)
Returned(st, keep, pending) ==
    [states |-> st, keep_alive |-> keep, pending_switch_proposals |-> pending,
     outcome |-> "ok", raised_at |-> "-"]

Raised(st, keep, pending, error, line) ==
    [states |-> st, keep_alive |-> keep, pending_switch_proposals |-> pending,
     outcome |-> error, raised_at |-> line]

\* Variant of ProposalPending that asks only whether anything is pending.
ProposalPendingAny(server_switch_event, pending) ==
    pending # {}

\* line 184: the confirmation names a switch the client proposed.
ProposalPending(server_switch_event, pending) ==
    server_switch_event \in pending

\* Variant of ProposalsAfter in which a plain Response drops nothing.
ProposalsKept(pending, event_type, server_switch_event) ==
    pending

\* lines 189-190: a plain Response drops every proposal.
ProposalsAfter(pending, event_type, server_switch_event) ==
    IF server_switch_event = None /\ event_type = Response
    THEN {}
    ELSE pending

\* Variant of KeepAliveDisabled that flips the flag.
KeepAliveDisabledToggle(st, keep, pending) ==
    Returned(fire_state_triggered_transitions(st, ~keep, pending),
             ~keep, pending)

\* Variant of KeepAliveDisabled that clears the flag without converging.
KeepAliveDisabledNoLoop(st, keep, pending) ==
    Returned(st, FALSE, pending)

\* lines 171-173.
KeepAliveDisabled(st, keep, pending) ==
    Returned(fire_state_triggered_transitions(st, FALSE, pending),
             FALSE, pending)

\* Variant of ClientSwitchProposals that does not store the proposals.
ClientSwitchProposalsNotStored(st, keep, pending, switch_events) ==
    IF st # [role \in Roles |-> IDLE]
    THEN Raised(st, keep, pending, "AssertionError", "176")
    ELSE IF pending # {}
    THEN Raised(st, keep, pending, "AssertionError", "177")
    ELSE Returned(fire_state_triggered_transitions(st, keep, pending),
                  keep, pending)

\* lines 175-179.
ClientSwitchProposals(st, keep, pending, switch_events) ==
    IF st # [role \in Roles |-> IDLE]
    THEN Raised(st, keep, pending, "AssertionError", "176")
    ELSE IF pending # {}
    THEN Raised(st, keep, pending, "AssertionError", "177")
    ELSE LET proposals == pending \cup switch_events
         IN  Returned(fire_state_triggered_transitions(st, keep, proposals),
                      keep, proposals)

\* lines 181-197, with both calls of _fire_event_triggered_transitions
\* (lines 199-207) and the closing convergence loop.
EventProcessed(st, keep, pending, role, event_type, server_switch_event) ==
    IF server_switch_event # None /\ role # SERVER
    THEN Raised(st, keep, pending, "AssertionError", "183")
    ELSE IF server_switch_event # None
            /\ ~ProposalPending(server_switch_event, pending)
    THEN Raised(st, keep, pending, "ProtocolError", "185")
    ELSE
    LET key == EventKey(event_type, server_switch_event)
        proposals == ProposalsAfter(pending, event_type, server_switch_event)
    IN  IF ~HasTransition(role, st[role], key)
        THEN Raised(st, keep, proposals, "ProtocolError", "191")
        ELSE
        LET own == [st EXCEPT ![role] = NewState(role, st[role], key)]
        IN  IF key # EventKey(Request, None)
            THEN Returned(
                    fire_state_triggered_transitions(own, keep, proposals),
                    keep, proposals)
            ELSE IF role # CLIENT
            THEN Raised(own, keep, proposals, "AssertionError", "195")
            ELSE IF ~HasTransition(SERVER, own[SERVER],
                                   EventKey(Request, CLIENT))
            THEN Raised(own, keep, proposals, "ProtocolError", "196")
            ELSE
            LET both == [own EXCEPT ![SERVER] =
                            NewState(SERVER, own[SERVER],
                                     EventKey(Request, CLIENT))]
            IN  Returned(
                    fire_state_triggered_transitions(both, keep, proposals),
                    keep, proposals)

\* Variant of ReusePrepared that looks at the client's state only.
ReusePreparedClientOnly(st, keep, pending) ==
    IF st[CLIENT] # DONE
    THEN Raised(st, keep, pending, "ProtocolError", "251")
    ELSE IF ~keep
    THEN Raised(st, keep, pending, "AssertionError", "254")
    ELSE IF pending # {}
    THEN Raised(st, keep, pending, "AssertionError", "255")
    ELSE Returned([role \in Roles |-> IDLE], keep, pending)

\* lines 249-256.
ReusePrepared(st, keep, pending) ==
    IF st # [role \in Roles |-> DONE]
    THEN Raised(st, keep, pending, "ProtocolError", "251")
    ELSE IF ~keep
    THEN Raised(st, keep, pending, "AssertionError", "254")
    ELSE IF pending # {}
    THEN Raised(st, keep, pending, "AssertionError", "255")
    ELSE Returned([role \in Roles |-> IDLE], keep, pending)

(***************************************************************************)
(* The ConnectionState object, the last call made on it and how it ended,  *)
(* the object's fields as they were when that call was made, and whether   *)
(* the server has declined the client's proposals in this cycle.           *)
(***************************************************************************)
VARIABLES states, keep_alive, pending_switch_proposals,
          call, outcome, raised_at, before, declined

vars == <<states, keep_alive, pending_switch_proposals,
          call, outcome, raised_at, before, declined>>

Fields ==
    [states |-> states, keep_alive |-> keep_alive,
     pending_switch_proposals |-> pending_switch_proposals]

Call(op, role, event_type, server_switch_event, switch_events) ==
    [op |-> op, role |-> role, event_type |-> event_type,
     server_switch_event |-> server_switch_event,
     switch_events |-> switch_events]

\* The call c is a plain server Response, made in SEND_RESPONSE while
\* proposals are pending, that returns (lines 189-191): the server declines.
Declines(c, result) ==
    /\ c.op = "process_event"
    /\ c.role = SERVER
    /\ c.event_type = Response
    /\ c.server_switch_event = None
    /\ result.outcome = "ok"
    /\ states[SERVER] = SEND_RESPONSE
    /\ pending_switch_proposals # {}

\* The object takes the fields the call left, and the call is recorded.
Finish(c, result) ==
    /\ states' = result.states
    /\ keep_alive' = result.keep_alive
    /\ pending_switch_proposals' = result.pending_switch_proposals
    /\ call' = c
    /\ outcome' = result.outcome
    /\ raised_at' = result.raised_at
    /\ before' = Fields
    /\ declined' = IF Declines(c, result) THEN TRUE
                   ELSE IF c.op = "prepare_to_reuse" /\ result.outcome = "ok"
                   THEN FALSE
                   ELSE declined

\* ConnectionState.__init__, lines 158-169.
Init ==
    /\ states = [role \in Roles |-> IDLE]
    /\ keep_alive = TRUE
    /\ pending_switch_proposals = {}
    /\ call = Call("__init__", None, None, None, {})
    /\ outcome = "ok"
    /\ raised_at = "-"
    /\ before = Fields
    /\ declined = FALSE

process_keep_alive_disabled ==
    Finish(Call("process_keep_alive_disabled", None, None, None, {}),
           KeepAliveDisabled(states, keep_alive, pending_switch_proposals))

process_client_switch_proposals ==
    \E switch_events \in SUBSET SwitchEvents :
        Finish(Call("process_client_switch_proposals", None, None, None,
                    switch_events),
               ClientSwitchProposals(states, keep_alive,
                                     pending_switch_proposals, switch_events))

process_event ==
    \E role \in Roles, event_type \in EventTypes,
       server_switch_event \in SwitchEvents \cup {None} :
        Finish(Call("process_event", role, event_type, server_switch_event,
                    {}),
               EventProcessed(states, keep_alive, pending_switch_proposals,
                              role, event_type, server_switch_event))

prepare_to_reuse ==
    Finish(Call("prepare_to_reuse", None, None, None, {}),
           ReusePrepared(states, keep_alive, pending_switch_proposals))

Next ==
    \/ process_keep_alive_disabled
    \/ process_client_switch_proposals
    \/ process_event
    \/ prepare_to_reuse

Spec == Init /\ [][Next]_vars

TypeOK ==
    /\ states \in [Roles -> StateSentinels]
    /\ keep_alive \in BOOLEAN
    /\ pending_switch_proposals \subseteq SwitchEvents
    /\ outcome \in {"ok", "ProtocolError", "AssertionError"}

(***************************************************************************)
(* Vocabulary of the properties.                                           *)
(***************************************************************************)
Joint(client_state, server_state) ==
    (CLIENT :> client_state) @@ (SERVER :> server_state)

\* The last call was process_event(role, event_type, server_switch_event).
EventCall(role, event_type, server_switch_event) ==
    call = Call("process_event", role, event_type, server_switch_event, {})

\* The key under which the last process_event call did its own lookup.
CallKey == EventKey(call.event_type, call.server_switch_event)

\* C1 (as claimed): a process_event call whose key has no entry for the
\* role in the state the role was in raises a protocol error and leaves
\* states, keep_alive and pending_switch_proposals as they were, a plain
\* Response while proposals are pending included.  Calls that break the
\* caller contract of line 183 (a switch annotation on a client event) are
\* left aside.
C1_NoPartialMutationOnFailure ==
    ( /\ call.op = "process_event"
      /\ (call.server_switch_event # None => call.role = SERVER)
      /\ ~HasTransition(call.role, before.states[call.role], CallKey) )
    => (outcome = "ProtocolError" /\ Fields = before)

\* C2 (as claimed): a client Request that raises a protocol error changes
\* neither role's state; in particular, with the client IDLE and the server
\* not IDLE the call raises and the client is still IDLE.
C2_RequestIsAtomic ==
    EventCall(CLIENT, Request, None)
    => /\ outcome = "ProtocolError" => states = before.states
       /\ (before.states[CLIENT] = IDLE /\ before.states[SERVER] # IDLE)
            => (outcome = "ProtocolError" /\ states[CLIENT] = IDLE)

\* C3: after every call that returned, one more pass of the state-triggered
\* rules changes nothing: the client is not DONE with proposals pending, not
\* MIGHT_SWITCH_PROTOCOL without, no role is DONE with keep-alive off, and
\* the joint state is no key of STATE_TRIGGERED_TRANSITIONS.
C3_FixedPointAfterSuccess ==
    outcome = "ok"
    => /\ StatePass(states, keep_alive, pending_switch_proposals) = states
       /\ ~(states[CLIENT] = DONE /\ pending_switch_proposals # {})
       /\ ~(states[CLIENT] = MIGHT_SWITCH_PROTOCOL
            /\ pending_switch_proposals = {})
       /\ \A role \in Roles : ~(states[role] = DONE /\ ~keep_alive)
       /\ <<states[CLIENT], states[SERVER]>>
            \notin DOMAIN STATE_TRIGGERED_TRANSITIONS

\* A denial that returned took the client from MIGHT_SWITCH_PROTOCOL through
\* DONE to MUST_CLOSE: two rules fired in the closing loop.
C3_Witness ==
    /\ outcome = "ok"
    /\ call.op = "process_event"
    /\ before.states[CLIENT] = MIGHT_SWITCH_PROTOCOL
    /\ states[CLIENT] = MUST_CLOSE

\* C4: whenever both roles are DONE, whatever calls came before and however
\* they ended, keep_alive is true and no proposal is pending; the assertions
\* of lines 254-255 never fail.
C4_ReuseAssertionsNeverFail ==
    /\ states = Joint(DONE, DONE)
        => (keep_alive /\ pending_switch_proposals = {})
    /\ raised_at \notin {"254", "255"}

\* Both roles are DONE right after a call that raised a protocol error.
C4_Witness ==
    /\ states = Joint(DONE, DONE)
    /\ outcome = "ProtocolError"

\* C5: prepare_to_reuse returns exactly when both roles were DONE, and then
\* both are IDLE with keep_alive and the proposals untouched; otherwise it
\* raises a protocol error and changes nothing.
C5_ReuseRoundTrip ==
    call.op = "prepare_to_reuse"
    => IF before.states = Joint(DONE, DONE)
       THEN /\ outcome = "ok"
            /\ states = Joint(IDLE, IDLE)
            /\ keep_alive = before.keep_alive
            /\ pending_switch_proposals = before.pending_switch_proposals
       ELSE /\ outcome = "ProtocolError"
            /\ Fields = before

C5_Witness ==
    /\ call.op = "prepare_to_reuse"
    /\ before.states = Joint(DONE, DONE)
    /\ states = Joint(IDLE, IDLE)

\* C6: from the moment process_keep_alive_disabled has been called, the two
\* roles are never DONE together again and no prepare_to_reuse returns: each
\* later one raises a protocol error.
C6_NoReuseAfterKeepAliveDisabled ==
    [](call.op = "process_keep_alive_disabled"
        => [](/\ states # Joint(DONE, DONE)
              /\ call.op = "prepare_to_reuse"
                    => (outcome = "ProtocolError" /\ raised_at = "251")))

\* Both messages are complete, keep-alive is off and a reuse was refused.
C6_Witness ==
    /\ ~keep_alive
    /\ states = Joint(MUST_CLOSE, MUST_CLOSE)
    /\ call.op = "prepare_to_reuse"
    /\ outcome = "ProtocolError"

\* C7: keep_alive starts true, only process_keep_alive_disabled changes it,
\* and once false it stays false under every operation.
C7_KeepAliveMonotonic ==
    /\ [](call.op = "__init__" => keep_alive)
    /\ [][/\ keep_alive' # keep_alive
                => call'.op = "process_keep_alive_disabled"
          /\ ~keep_alive => ~keep_alive']_vars

\* process_keep_alive_disabled called again with keep-alive already off.
C7_Witness ==
    /\ call.op = "process_keep_alive_disabled"
    /\ ~before.keep_alive
    /\ ~keep_alive

\* C8: a server event annotated with a switch that is not pending raises a
\* protocol error and changes nothing, in every state and for every event
\* type; and the server enters SWITCHED_PROTOCOL only by a call annotated
\* with a switch that was pending when the call was made.
C8_UnconfirmedSwitchRejected ==
    /\ ( /\ call.op = "process_event"
         /\ call.role = SERVER
         /\ call.server_switch_event # None
         /\ call.server_switch_event
                \notin before.pending_switch_proposals )
       => (outcome = "ProtocolError" /\ Fields = before)
    /\ ( /\ states[SERVER] = SWITCHED_PROTOCOL
         /\ before.states[SERVER] # SWITCHED_PROTOCOL )
       => /\ call.op = "process_event"
          /\ call.role = SERVER
          /\ call.server_switch_event \in before.pending_switch_proposals

\* The server confirms CONNECT in SEND_RESPONSE while only UPGRADE is pending.
C8_Witness ==
    /\ EventCall(SERVER, Response, SWITCH_CONNECT)
    /\ before.states[SERVER] = SEND_RESPONSE
    /\ before.pending_switch_proposals = {SWITCH_UPGRADE}
    /\ outcome = "ProtocolError"

\* The event type that confirms a switch (lines 124-125).
Confirmation(switch) ==
    IF switch = SWITCH_UPGRADE THEN InformationalResponse ELSE Response

\* C9: with a switch proposed, a client Request takes IDLE/IDLE to
\* SEND_BODY/SEND_RESPONSE; from there the client's EndOfMessage and the
\* server's confirmation of that switch return in either order and end in
\* SWITCHED_PROTOCOL/SWITCHED_PROTOCOL, through MIGHT_SWITCH_PROTOCOL/
\* SEND_RESPONSE when EndOfMessage is first and through SEND_BODY/
\* SWITCHED_PROTOCOL when the confirmation is first.  UPGRADE is confirmed
\* by InformationalResponse, CONNECT by Response.
C9_UpgradeAcceptedEitherOrder ==
    /\ \A switch \in SwitchEvents :
        ( /\ call = Call("process_client_switch_proposals", None, None,
                         None, {switch})
          /\ outcome = "ok" )
        => ( /\ states = Joint(IDLE, IDLE)
             /\ pending_switch_proposals = {switch} )
    /\ \A switch \in before.pending_switch_proposals :
           /\ ( /\ EventCall(CLIENT, Request, None)
                /\ before.states = Joint(IDLE, IDLE) )
              => ( /\ outcome = "ok"
                   /\ states = Joint(SEND_BODY, SEND_RESPONSE)
                   /\ pending_switch_proposals
                        = before.pending_switch_proposals )
           /\ ( /\ EventCall(CLIENT, EndOfMessage, None)
                /\ before.states = Joint(SEND_BODY, SEND_RESPONSE) )
              => ( /\ outcome = "ok"
                   /\ states = Joint(MIGHT_SWITCH_PROTOCOL, SEND_RESPONSE)
                   /\ pending_switch_proposals
                        = before.pending_switch_proposals )
           /\ ( /\ EventCall(SERVER, Confirmation(switch), switch)
                /\ before.states = Joint(MIGHT_SWITCH_PROTOCOL, SEND_RESPONSE) )
              => ( /\ outcome = "ok"
                   /\ states = Joint(SWITCHED_PROTOCOL, SWITCHED_PROTOCOL) )
           /\ ( /\ EventCall(SERVER, Confirmation(switch), switch)
                /\ before.states = Joint(SEND_BODY, SEND_RESPONSE) )
              => ( /\ outcome = "ok"
                   /\ states = Joint(SEND_BODY, SWITCHED_PROTOCOL)
                   /\ pending_switch_proposals
                        = before.pending_switch_proposals )
           /\ ( /\ EventCall(CLIENT, EndOfMessage, None)
                /\ before.states = Joint(SEND_BODY, SWITCHED_PROTOCOL) )
              => ( /\ outcome = "ok"
                   /\ states = Joint(SWITCHED_PROTOCOL, SWITCHED_PROTOCOL) )

\* The confirmation came first and the client's EndOfMessage completed the
\* switch, with keep-alive off.
C9_Witness ==
    /\ EventCall(CLIENT, EndOfMessage, None)
    /\ before.states = Joint(SEND_BODY, SWITCHED_PROTOCOL)
    /\ before.pending_switch_proposals # {}
    /\ ~keep_alive
    /\ states = Joint(SWITCHED_PROTOCOL, SWITCHED_PROTOCOL)

\* The last call is the server declining: a plain Response, made in
\* SEND_RESPONSE while proposals were pending, that returned.
Denial ==
    /\ EventCall(SERVER, Response, None)
    /\ outcome = "ok"
    /\ before.states[SERVER] = SEND_RESPONSE
    /\ before.pending_switch_proposals # {}

\* The last call is a client EndOfMessage that returned, made after the
\* server declined in this cycle.
FinishedAfterDenial ==
    /\ declined
    /\ EventCall(CLIENT, EndOfMessage, None)
    /\ outcome = "ok"

\* The effect of the declining call itself: no proposal is left, the server
\* is in SEND_BODY, and a client that was in MIGHT_SWITCH_PROTOCOL is DONE,
\* or MUST_CLOSE with keep-alive off.  From then on the client is never in
\* MIGHT_SWITCH_PROTOCOL in this cycle.
DenialEffect ==
    /\ Denial
        => /\ pending_switch_proposals = {}
           /\ states[SERVER] = SEND_BODY
           /\ before.states[CLIENT] = MIGHT_SWITCH_PROTOCOL
                => states[CLIENT] = IF keep_alive THEN DONE ELSE MUST_CLOSE
    /\ declined => states[CLIENT] # MIGHT_SWITCH_PROTOCOL

\* C10 (as claimed): after the server declined, a client that finishes its
\* message ends in DONE, or in MUST_CLOSE if keep_alive is false.
C10_DenialAsClaimed ==
    /\ DenialEffect
    /\ FinishedAfterDenial
        => states[CLIENT] = IF keep_alive THEN DONE ELSE MUST_CLOSE

\* C10 (amended): after the server declined, a client that finishes its
\* message ends in DONE, or in MUST_CLOSE if keep_alive is false or the
\* server is CLOSED by then.
C10_DenialEndsInDoneOrMustClose ==
    /\ DenialEffect
    /\ FinishedAfterDenial
        => states[CLIENT] = IF keep_alive /\ states[SERVER] # CLOSED
                            THEN DONE
                            ELSE MUST_CLOSE

\* The server declined, completed its response and closed before the client
\* finished its message: the client ends in MUST_CLOSE with keep-alive on.
C10_Witness ==
    /\ FinishedAfterDenial
    /\ keep_alive
    /\ states = Joint(MUST_CLOSE, CLOSED)

\* The scenario of C11: from DONE/SEND_BODY, disabling keep-alive gives
\* MUST_CLOSE/SEND_BODY, and a following server EndOfMessage gives
\* MUST_CLOSE/MUST_CLOSE.
KeepAliveScenario ==
    /\ ( /\ call.op = "process_keep_alive_disabled"
         /\ before.states = Joint(DONE, SEND_BODY) )
       => states = Joint(MUST_CLOSE, SEND_BODY)
    /\ ( /\ EventCall(SERVER, EndOfMessage, None)
         /\ ~before.keep_alive
         /\ before.states = Joint(MUST_CLOSE, SEND_BODY) )
       => states = Joint(MUST_CLOSE, MUST_CLOSE)

\* The last call is an EndOfMessage of role that returned, made with
\* keep-alive already off.
FinishedWithoutKeepAlive(role) ==
    /\ EventCall(role, EndOfMessage, None)
    /\ outcome = "ok"
    /\ ~before.keep_alive

\* C11 (as claimed): process_keep_alive_disabled turns every DONE role into
\* MUST_CLOSE and changes no role in another state; afterwards a role that
\* completes its message by EndOfMessage is in MUST_CLOSE when the call
\* returns; and the DONE/SEND_BODY scenario runs as described.
C11_KeepAlivePropagationAsClaimed ==
    /\ call.op = "process_keep_alive_disabled"
        => \A role \in Roles :
              states[role] = IF before.states[role] = DONE
                             THEN MUST_CLOSE
                             ELSE before.states[role]
    /\ \A role \in Roles :
          FinishedWithoutKeepAlive(role) => states[role] = MUST_CLOSE
    /\ KeepAliveScenario

\* C11 (amended): process_keep_alive_disabled turns every DONE role, and a
\* client in MIGHT_SWITCH_PROTOCOL with no proposal pending, into MUST_CLOSE
\* and changes no other role; afterwards a role that completes its message
\* by EndOfMessage is in MUST_CLOSE when the call returns, except the client
\* while proposals are pending, which is in MIGHT_SWITCH_PROTOCOL, or in
\* SWITCHED_PROTOCOL if the server has switched; and the DONE/SEND_BODY
\* scenario runs as described.
C11_KeepAlivePropagation ==
    /\ call.op = "process_keep_alive_disabled"
        => \A role \in Roles :
              states[role] =
                IF \/ before.states[role] = DONE
                   \/ /\ role = CLIENT
                      /\ before.states[CLIENT] = MIGHT_SWITCH_PROTOCOL
                      /\ before.pending_switch_proposals = {}
                THEN MUST_CLOSE
                ELSE before.states[role]
    /\ \A role \in Roles :
          FinishedWithoutKeepAlive(role)
          => states[role] =
                IF role = CLIENT /\ pending_switch_proposals # {}
                THEN IF states[SERVER] = SWITCHED_PROTOCOL
                     THEN SWITCHED_PROTOCOL
                     ELSE MIGHT_SWITCH_PROTOCOL
                ELSE MUST_CLOSE
    /\ KeepAliveScenario

\* With keep-alive off and a proposal pending, the client's EndOfMessage
\* returned and left the client in MIGHT_SWITCH_PROTOCOL.
C11_Witness ==
    /\ FinishedWithoutKeepAlive(CLIENT)
    /\ pending_switch_proposals # {}
    /\ states[CLIENT] = MIGHT_SWITCH_PROTOCOL

(***************************************************************************)
(* _fire_state_triggered_transitions on its own, pass by pass, entered     *)
(* with any contents of the three fields.  outcome is "running" while the  *)
(* loop runs and "ok" once line 247 returned; before keeps the fields as   *)
(* they were on entry.                                                     *)
(***************************************************************************)
LoopInit ==
    /\ states \in [Roles -> StateSentinels]
    /\ keep_alive \in BOOLEAN
    /\ pending_switch_proposals \in SUBSET SwitchEvents
    /\ call = Call("_fire_state_triggered_transitions", None, None, None, {})
    /\ outcome = "running"
    /\ raised_at = "-"
    /\ before = Fields
    /\ declined = FALSE

\* One iteration of while True (lines 211-247): the pass, then the test of
\* line 245 against start_states.
loop_pass ==
    /\ outcome = "running"
    /\ LET start_states == states
           after == StatePass(start_states, keep_alive,
                              pending_switch_proposals)
       IN  /\ states' = after
           /\ outcome' = IF after = start_states THEN "ok" ELSE "running"
    /\ UNCHANGED <<keep_alive, pending_switch_proposals, call, raised_at,
                   before, declined>>

LoopNext == loop_pass

\* The loop is sequential code: while it has not returned, it runs on.
LoopSpec == LoopInit /\ [][LoopNext]_vars /\ WF_vars(loop_pass)

\* C12: entered with any client state, server state, keep_alive and
\* proposals, the loop returns; no run of passes goes on for ever, between
\* DONE and MIGHT_SWITCH_PROTOCOL or otherwise.
C12_ConvergenceTerminates ==
    <>(outcome = "ok")

\* The loop returned after taking the client from MIGHT_SWITCH_PROTOCOL with
\* no proposal pending, a combination no successful call leaves, through
\* DONE to MUST_CLOSE.
C12_Witness ==
    /\ call.op = "_fire_state_triggered_transitions"
    /\ outcome = "ok"
    /\ before.states[CLIENT] = MIGHT_SWITCH_PROTOCOL
    /\ before.pending_switch_proposals = {}
    /\ states[CLIENT] = MUST_CLOSE

\* The last call is a server confirmation of a pending switch that returned.
Confirmed ==
    /\ call.op = "process_event"
    /\ call.role = SERVER
    /\ call.server_switch_event \in before.pending_switch_proposals
    /\ outcome = "ok"

\* C13: with a proposal pending and keep-alive off, a client EndOfMessage
\* that returns never leaves the client in MUST_CLOSE or DONE: the client is
\* in MIGHT_SWITCH_PROTOCOL, or, the server having switched already, has
\* gone on from there to SWITCHED_PROTOCOL.  From MIGHT_SWITCH_PROTOCOL with
\* keep-alive off, a server confirmation takes the client to
\* SWITCHED_PROTOCOL, and a plain server Response takes it to MUST_CLOSE in
\* the same call.
C13_SwitchBeforeClose ==
    /\ ( /\ FinishedWithoutKeepAlive(CLIENT)
         /\ before.pending_switch_proposals # {} )
       => states[CLIENT] = IF states[SERVER] = SWITCHED_PROTOCOL
                           THEN SWITCHED_PROTOCOL
                           ELSE MIGHT_SWITCH_PROTOCOL
    /\ ( /\ before.states[CLIENT] = MIGHT_SWITCH_PROTOCOL
         /\ ~before.keep_alive
         /\ Confirmed )
       => states = Joint(SWITCHED_PROTOCOL, SWITCHED_PROTOCOL)
    /\ ( /\ before.states[CLIENT] = MIGHT_SWITCH_PROTOCOL
         /\ ~before.keep_alive
         /\ EventCall(SERVER, Response, None)
         /\ outcome = "ok" )
       => ( /\ states[CLIENT] = MUST_CLOSE
            /\ pending_switch_proposals = {} )

\* With keep-alive off, the server declined while the client was in
\* MIGHT_SWITCH_PROTOCOL, and the client is in MUST_CLOSE.
C13_Witness ==
    /\ Denial
    /\ ~before.keep_alive
    /\ before.states[CLIENT] = MIGHT_SWITCH_PROTOCOL
    /\ states[CLIENT] = MUST_CLOSE

\* C14: each role's state is a key of that role's table in
\* EVENT_TRIGGERED_TRANSITIONS, so the lookup of line 202 never fails on the
\* state: the client is never in SEND_RESPONSE, the server never in
\* MIGHT_SWITCH_PROTOCOL.
C14_RoleTypedStates ==
    /\ \A role \in Roles :
          states[role] \in DOMAIN EVENT_TRIGGERED_TRANSITIONS[role]
    /\ states[CLIENT] # SEND_RESPONSE
    /\ states[SERVER] # MIGHT_SWITCH_PROTOCOL

\* Each of the two role-specific states is occupied, by the role that has it.
C14_Witness ==
    states = Joint(MIGHT_SWITCH_PROTOCOL, SEND_RESPONSE)

\* The other role.
Peer(role) ==
    IF role = CLIENT THEN SERVER ELSE CLIENT

\* C15: after a call that returned, a role that is CLOSED has a peer that is
\* neither IDLE nor DONE; and once either role is CLOSED, no later call is a
\* client Request that returns or a prepare_to_reuse that returns.
C15_TeardownCoupling ==
    /\ [](outcome = "ok"
            => \A role \in Roles :
                  states[role] = CLOSED
                    => states[Peer(role)] \notin {IDLE, DONE})
    /\ []((\E role \in Roles : states[role] = CLOSED)
            => [](/\ ~(EventCall(CLIENT, Request, None) /\ outcome = "ok")
                  /\ ~(call.op = "prepare_to_reuse" /\ outcome = "ok")))

\* The server closed while the client was DONE; the client was forced to
\* MUST_CLOSE by the same call.
C15_Witness ==
    /\ EventCall(SERVER, ConnectionClosed, None)
    /\ before.states[CLIENT] = DONE
    /\ states = Joint(MUST_CLOSE, CLOSED)

\* C16: a role that was CLOSED when a call was made is CLOSED after it; a
\* role that was SWITCHED_PROTOCOL is SWITCHED_PROTOCOL after it, and the
\* call, if it was an event of that role (within the contract of line 183),
\* raised a protocol error; a role that was MUST_CLOSE is MUST_CLOSE after
\* it, or CLOSED if the call was that role's ConnectionClosed.
C16_TerminalStatesAbsorbing ==
    \A role \in Roles :
        /\ before.states[role] = CLOSED => states[role] = CLOSED
        /\ before.states[role] = SWITCHED_PROTOCOL
            => /\ states[role] = SWITCHED_PROTOCOL
               /\ ( /\ call.op = "process_event"
                    /\ call.role = role
                    /\ (call.server_switch_event # None => role = SERVER) )
                  => outcome = "ProtocolError"
        /\ before.states[role] = MUST_CLOSE
            => \/ states[role] = MUST_CLOSE
               \/ /\ states[role] = CLOSED
                  /\ EventCall(role, ConnectionClosed, None)

\* The server, in SWITCHED_PROTOCOL, was sent ConnectionClosed while the
\* client was CLOSED: the call raised and both stayed where they were.
C16_Witness ==
    /\ EventCall(SERVER, ConnectionClosed, None)
    /\ before.states = Joint(CLOSED, SWITCHED_PROTOCOL)
    /\ states = Joint(CLOSED, SWITCHED_PROTOCOL)
    /\ outcome = "ProtocolError"

\* How far a state is along a role's request/response cycle, in the order
\* in which EVENT_TRIGGERED_TRANSITIONS and the state-triggered rules let a
\* call leave a role: IDLE first, CLOSED last.
Progress(state) ==
    CASE state = IDLE                  -> 0
      [] state = SEND_RESPONSE         -> 1
      [] state = SEND_BODY             -> 2
      [] state = MIGHT_SWITCH_PROTOCOL -> 3
      [] state = DONE                  -> 4
      [] state = MUST_CLOSE            -> 5
      [] state = SWITCHED_PROTOCOL     -> 5
      [] state = CLOSED                -> 6

Reused ==
    call.op = "prepare_to_reuse" /\ outcome = "ok"

\* C17: a call that takes a role from a state other than IDLE into IDLE is
\* a prepare_to_reuse that returned; and every other call leaves each role
\* at least as far along its cycle as it found it, so that a role goes from
\* IDLE to DONE at most once between two reuses.
C17_OnlyReuseReturnsToIdle ==
    \A role \in Roles :
        /\ (before.states[role] # IDLE /\ states[role] = IDLE) => Reused
        /\ ~Reused => Progress(states[role]) >= Progress(before.states[role])

\* A reuse took both roles from DONE back to IDLE.
C17_Witness ==
    /\ Reused
    /\ before.states = Joint(DONE, DONE)
    /\ states = Joint(IDLE, IDLE)

Proposed ==
    call.op = "process_client_switch_proposals"

\* C18: process_client_switch_proposals called with both roles IDLE and no
\* proposal pending returns, leaves exactly the given set of proposals
\* pending, and leaves both role states and keep_alive as they were.
C18_ProposalsStoredOnly ==
    ( /\ Proposed
      /\ before.states = Joint(IDLE, IDLE)
      /\ before.pending_switch_proposals = {} )
    => /\ outcome = "ok"
       /\ pending_switch_proposals = call.switch_events
       /\ states = before.states
       /\ keep_alive = before.keep_alive

\* Both kinds of switch were proposed on a connection whose keep-alive had
\* already been disabled.
C18_Witness ==
    /\ Proposed
    /\ outcome = "ok"
    /\ ~before.keep_alive
    /\ before.pending_switch_proposals = {}
    /\ pending_switch_proposals = {SWITCH_UPGRADE, SWITCH_CONNECT}
    /\ states = Joint(IDLE, IDLE)

\* C19: the client is SWITCHED_PROTOCOL only beside a server that is
\* SWITCHED_PROTOCOL, and MIGHT_SWITCH_PROTOCOL only beside a server that is
\* SEND_RESPONSE.
C19_ClientNeverSwitchesAlone ==
    /\ states[CLIENT] = SWITCHED_PROTOCOL
        => states[SERVER] = SWITCHED_PROTOCOL
    /\ states[CLIENT] = MIGHT_SWITCH_PROTOCOL
        => states[SERVER] = SEND_RESPONSE

\* The server had confirmed the switch while the client was still sending
\* its body; the client's EndOfMessage then took it to SWITCHED_PROTOCOL.
C19_Witness ==
    /\ EventCall(CLIENT, EndOfMessage, None)
    /\ before.states = Joint(SEND_BODY, SWITCHED_PROTOCOL)
    /\ states = Joint(SWITCHED_PROTOCOL, SWITCHED_PROTOCOL)

\* C20: beside a server that is SWITCHED_PROTOCOL the client is SEND_BODY
\* or SWITCHED_PROTOCOL, after every sequence of calls, the ones that raised
\* included.
C20_SwitchCarriesClient ==
    states[SERVER] = SWITCHED_PROTOCOL
        => states[CLIENT] \in {SEND_BODY, SWITCHED_PROTOCOL}

====
